---- MODULE Spec2Model ----
(***************************************************************************)
(* A model of src/src/slack/index.ts: the SlackMCP agent (constructor and  *)
(* init), its eight tool handlers, and the SlackClient methods they call.  *)
(*                                                                         *)
(* Conventions.                                                            *)
(*  - An optional value (undefined or a value) is a sequence of length 0   *)
(*    or 1: <<>> is undefined, <<v>> is the value v.                       *)
(*  - SLACK_CHANNEL_IDS is a sequence of one-character strings, so that    *)
(*    split(",") and trim() are computed character by character.  Every    *)
(*    other string is a TLA+ string.                                       *)
(*  - A URLSearchParams object and a JSON.stringify-ed object literal are  *)
(*    the sequence of their <<name, value>> pairs in insertion order.      *)
(*  - A response body is either text that is no JSON document, or a JSON   *)
(*    document, represented by the value it decodes to.                    *)
(*  - Each HTTP call has two suspend points, as in the source: the await   *)
(*    of fetch() (pc = "fetch") and the await of response.json()           *)
(*    (pc = "json").  A pinned listing has one more: getChannels returns   *)
(*    its own value (pc = "returned") and the handler, suspended on        *)
(*    "await this.slackClient.getChannels(...)", resumes in a later turn.  *)
(*  - A client method in which an await rejects or a statement throws      *)
(*    rejects its own promise (pc = "thrown"); the handler awaiting it is  *)
(*    resumed with the rejection in a later turn (pc = "failed").          *)
(***************************************************************************)
EXTENDS Integers, Sequences, FiniteSets, TLC

VARIABLES
    scope,     \* "seq": one invocation, wide inputs; "conc": overlapping invocations
    env,       \* the Env record handed to the SlackMCP constructor
    agent,     \* "new" | "failed" (constructor threw) | "constructed" | "ready"
    client,    \* optional SlackClient (this.slackClient)
    tools,     \* names registered with this.server.tool
    inv,       \* per invocation: the handler's and the client method's locals
    inflight   \* fetch() calls issued and not yet settled

vars == <<scope, env, agent, client, tools, inv, inflight>>

----------------------------------------------------------------------------
(* Bounds *)

\* longest SLACK_CHANNEL_IDS string explored (in characters)
MaxIdsLen == 3
\* number of tool invocations that may overlap in the "conc" scope
MaxInv == 2

Invs == 1 .. MaxInv

Alphabet == {"A", "B", ",", " "}

----------------------------------------------------------------------------
(* Strings and numbers *)

Min(a, b) == IF a < b THEN a ELSE b

\* JavaScript truthiness of an optional string: undefined and "" are falsy.
Truthy(opt) == opt # <<>> /\ opt[1] # ""

\* The same for an optional character sequence.
TruthyChars(opt) == opt # <<>> /\ opt[1] # <<>>

RECURSIVE Str(_)
\* The string made of the characters of s.
Str(s) == IF s = <<>> THEN "" ELSE Head(s) \o Str(Tail(s))

Digit(d) ==
    CASE d = 0 -> "0" [] d = 1 -> "1" [] d = 2 -> "2" [] d = 3 -> "3"
      [] d = 4 -> "4" [] d = 5 -> "5" [] d = 6 -> "6" [] d = 7 -> "7"
      [] d = 8 -> "8" [] d = 9 -> "9"

RECURSIVE NatToString(_)
NatToString(n) ==
    IF n < 10 THEN Digit(n) ELSE NatToString(n \div 10) \o Digit(n % 10)

\* Number.prototype.toString() on an integer.
NumToString(n) == IF n < 0 THEN "-" \o NatToString(0 - n) ELSE NatToString(n)

RECURSIVE Split(_)
\* String.prototype.split(","): the pieces between the commas, empty ones
\* included; a string without a comma is its own single piece.
Split(s) ==
    IF \A k \in 1 .. Len(s) : s[k] # ","
    THEN <<s>>
    ELSE LET k == CHOOSE j \in 1 .. Len(s) :
                      s[j] = "," /\ \A m \in 1 .. j - 1 : s[m] # ","
         IN  <<SubSeq(s, 1, k - 1)>> \o Split(SubSeq(s, k + 1, Len(s)))

RECURSIVE TrimStart(_)
TrimStart(s) == IF s # <<>> /\ Head(s) = " " THEN TrimStart(Tail(s)) ELSE s

RECURSIVE TrimEnd(_)
TrimEnd(s) ==
    IF s # <<>> /\ s[Len(s)] = " " THEN TrimEnd(SubSeq(s, 1, Len(s) - 1)) ELSE s

\* String.prototype.trim().
Trim(s) == TrimEnd(TrimStart(s))

----------------------------------------------------------------------------
(* SlackClient *)

\* new SlackClient(botToken, teamId, channelIds)
SlackClient(botToken, teamId, channelIds) ==
    [ botHeaders |-> [ Authorization |-> "Bearer " \o botToken,
                       ContentType   |-> "application/json" ],
      teamId     |-> teamId,
      channelIds |-> channelIds ]

\* fetch(url + "?" + params, { headers })
Get(endpoint, headers, params) ==
    [ endpoint |-> endpoint, method |-> "GET", headers |-> headers,
      query |-> params, body |-> <<>> ]

\* fetch(url, { method: "POST", headers, body: JSON.stringify({...}) })
Post(endpoint, headers, fields) ==
    [ endpoint |-> endpoint, method |-> "POST", headers |-> headers,
      query |-> <<>>, body |-> fields ]

\* if (cursor) params.append("cursor", cursor)
AppendCursor(params, cursor) ==
    IF Truthy(cursor) THEN Append(params, <<"cursor", cursor[1]>>) ELSE params

\* UsesPinnedList as "predefinedChannelIds !== undefined".
UsesPinnedList_IfDefined(channelIds) == channelIds # <<>>

\* getChannels: the test "if (!predefinedChannelIds)" is false
UsesPinnedList(channelIds) == TruthyChars(channelIds)

\* ListChannelsParams without the clamp, as in "limit: limit.toString()".
ListChannelsParams_Unclamped(limit, cursor, teamId) ==
    LET lim == IF limit = <<>> THEN 100 ELSE limit[1]
    IN  AppendCursor(<< <<"types", "public_channel">>,
                        <<"exclude_archived", "true">>,
                        <<"limit", NumToString(lim)>>,
                        <<"team_id", teamId>> >>, cursor)

\* getChannels(limit = 100, cursor), open listing: the URLSearchParams
ListChannelsParams(limit, cursor, teamId) ==
    LET lim == IF limit = <<>> THEN 100 ELSE limit[1]
    IN  AppendCursor(<< <<"types", "public_channel">>,
                        <<"exclude_archived", "true">>,
                        <<"limit", NumToString(Min(lim, 200))>>,
                        <<"team_id", teamId>> >>, cursor)

\* getChannels, open listing: the fetch
ListChannelsRequest(c, limit, cursor) ==
    Get("https://slack.com/api/conversations.list", c.botHeaders,
        ListChannelsParams(limit, cursor, c.teamId))

\* predefinedChannelIds.split(",").map(id => id.trim())
PredefinedChannelIdsArray(channelIds) ==
    LET parts == Split(channelIds)
    IN  [k \in 1 .. Len(parts) |-> Str(Trim(parts[k]))]

\* getChannels, pinned listing: the fetch of one loop iteration
ChannelInfoRequest(headers, channelId) ==
    Get("https://slack.com/api/conversations.info", headers,
        << <<"channel", channelId>> >>)

\* postMessage(channel_id, text)
PostMessageRequest(headers, channel_id, text) ==
    Post("https://slack.com/api/chat.postMessage", headers,
         << <<"channel", channel_id>>, <<"text", text>> >>)

\* PostReplyRequest sending the parent timestamp in place of the text.
PostReplyRequest_NoText(headers, channel_id, thread_ts, text) ==
    Post("https://slack.com/api/chat.postMessage", headers,
         << <<"channel", channel_id>>, <<"thread_ts", thread_ts>> >>)

\* postReply(channel_id, thread_ts, text)
PostReplyRequest(headers, channel_id, thread_ts, text) ==
    Post("https://slack.com/api/chat.postMessage", headers,
         << <<"channel", channel_id>>, <<"thread_ts", thread_ts>>,
            <<"text", text>> >>)

\* addReaction(channel_id, timestamp, reaction)
AddReactionRequest(headers, channel_id, timestamp, reaction) ==
    Post("https://slack.com/api/reactions.add", headers,
         << <<"channel", channel_id>>, <<"timestamp", timestamp>>,
            <<"name", reaction>> >>)

\* getChannelHistory(channel_id, limit = 10)
ChannelHistoryRequest(headers, channel_id, limit) ==
    LET lim == IF limit = <<>> THEN 10 ELSE limit[1]
    IN  Get("https://slack.com/api/conversations.history", headers,
            << <<"channel", channel_id>>, <<"limit", NumToString(lim)>> >>)

\* getThreadReplies(channel_id, thread_ts)
ThreadRepliesRequest(headers, channel_id, thread_ts) ==
    Get("https://slack.com/api/conversations.replies", headers,
        << <<"channel", channel_id>>, <<"ts", thread_ts>> >>)

\* getUsers(limit = 100, cursor)
UsersRequest(c, limit, cursor) ==
    LET lim == IF limit = <<>> THEN 100 ELSE limit[1]
    IN  Get("https://slack.com/api/users.list", c.botHeaders,
            AppendCursor(<< <<"limit", NumToString(Min(lim, 200))>>,
                            <<"team_id", c.teamId>> >>, cursor))

\* getUserProfile(user_id)
UserProfileRequest(headers, user_id) ==
    Get("https://slack.com/api/users.profile.get", headers,
        << <<"user", user_id>>, <<"include_labels", "true">> >>)

----------------------------------------------------------------------------
(* JSON values, response bodies and tool output *)

\* A decoded JSON value: an object with the members the program reads or
\* writes (each optional), or null.
Obj(ok, error, channel, channels, response_metadata) ==
    [ type |-> "object", ok |-> ok, error |-> error, channel |-> channel,
      channels |-> channels, response_metadata |-> response_metadata ]

JsonNull ==
    [ type |-> "null", ok |-> <<>>, error |-> <<>>, channel |-> <<>>,
      channels |-> <<>>, response_metadata |-> <<>> ]

\* Text that is the JSON document of value v.
JsonText(v) == [ json |-> TRUE, value |-> v ]

\* Text that is no JSON document (an HTML error page, say).
NotJson == [ json |-> FALSE, value |-> JsonNull ]

\* JSON.stringify(response)
Stringify(response) == JsonText(response)

\* HandlerOutput of a handler that reports a provider failure as its error
\* message alone.
HandlerOutput_ErrorOnly(response) ==
    [ content |-> << [ type |-> "text",
                       text |-> Stringify(IF response.ok = <<FALSE>>
                                          THEN [response EXCEPT !.ok = <<>>]
                                          ELSE response) ] >> ]

\* the handler's return value: { content: [{ type: "text", text: ... }] }
HandlerOutput(response) ==
    [ content |-> << [ type |-> "text", text |-> Stringify(response) ] >> ]

\* KeepChannel without the archived test.
KeepChannel_IgnoringArchived(data) ==
    /\ data.ok = <<TRUE>>
    /\ data.channel # <<>>

\* if (data.ok && data.channel && !data.channel.is_archived)
KeepChannel(data) ==
    /\ data.ok = <<TRUE>>
    /\ data.channel # <<>>
    /\ data.channel[1].is_archived # <<TRUE>>

\* getChannels, pinned listing: the synthesized return value
PinnedResult(channels) ==
    Obj(<<TRUE>>, <<>>, <<>>, <<channels>>, << [ next_cursor |-> "" ] >>)

\* PushChannel on one array shared by every call, as if "channels" were a
\* field of the client.
PushChannel_Shared(all, i, data) ==
    [ j \in DOMAIN all |->
        IF KeepChannel(data) THEN Append(all[j], data.channel[1]) ELSE all[j] ]

\* channels.push(data.channel), on the array of invocation i only: each call
\* of getChannels has its own "const channels = []".
PushChannel(all, i, data) ==
    [ all EXCEPT ![i] = IF KeepChannel(data) THEN Append(@, data.channel[1]) ELSE @ ]

\* LookupsToIssue of a loop that starts every remaining lookup at once, as
\* with Promise.all.
LookupsToIssue_AllAtOnce(ids, idx) ==
    [ k \in 1 .. (Len(ids) - idx + 1) |-> idx + k - 1 ]

\* The loop of getChannels awaits each fetch before the next iteration: one
\* lookup, that of the current entry, is issued per iteration.
LookupsToIssue(ids, idx) == <<idx>>

\* LoopDone of a loop that stops after its first entry.
LoopDone_AfterFirst(ids, idx) == idx > 1

\* for (const channelId of predefinedChannelIdsArray): is the loop over?
LoopDone(ids, idx) == idx > Len(ids)

----------------------------------------------------------------------------
(* The provider, as seen through fetch() *)

Response(status, body) == [ status |-> status, body |-> body ]

\* The value of the "channel" parameter of a lookup request.
ChannelParam(req) == req.query[1][2]

Chan(id, archived) == [ id |-> id, is_archived |-> archived ]

\* A lookup answered with the channel, with or without its archived flag.
Found(id, archived) ==
    Response(200, JsonText(Obj(<<TRUE>>, <<>>, <<Chan(id, archived)>>, <<>>, <<>>)))

\* An answer that reports a provider-side error.
Failure(status, error) ==
    Response(status, JsonText(Obj(<<FALSE>>, <<error>>, <<>>, <<>>, <<>>)))

\* An answer with ok:true and neither a channel nor a page.
Bare == Response(200, JsonText(Obj(<<TRUE>>, <<>>, <<>>, <<>>, <<>>)))

\* A page of a listing.
Page ==
    Response(200, JsonText(Obj(<<TRUE>>, <<>>, <<>>,
                               << <<Chan("C7", <<FALSE>>)>> >>,
                               << [ next_cursor |-> "bmV4dA==" ] >>)))

\* What conversations.info may answer for a lookup.  Overlapping
\* invocations are explored over fewer answers.
InfoResponses(sc, req) ==
    LET id == ChannelParam(req)
    IN  { Found(id, <<FALSE>>), Found(id, <<TRUE>>),
          Failure(500, "internal_error") }
        \cup
        IF sc = "seq"
        THEN { Found(id, <<>>), Bare, Failure(200, "channel_not_found"),
               Response(503, NotJson), Response(200, JsonText(JsonNull)),
               Response(500, JsonText(JsonNull)) }
        ELSE {}

\* What any other endpoint may answer.
OtherResponses(sc, req) ==
    { Page, Failure(429, "ratelimited"), Response(503, NotJson) }
    \cup
    IF sc = "seq"
    THEN { Bare, Failure(200, "invalid_auth"), Response(200, JsonText(JsonNull)),
           Response(500, JsonText(JsonNull)) }
    ELSE {}

\* The responses a fetch of req may resolve to.
ProviderResponses(sc, req) ==
    IF req.endpoint = "https://slack.com/api/conversations.info"
    THEN InfoResponses(sc, req)
    ELSE OtherResponses(sc, req)

----------------------------------------------------------------------------
(* Inputs *)

\* All character sequences of length at most n.
Strings(n) == UNION { [1 .. k -> Alphabet] : k \in 0 .. n }

OptionalStrings(values) == { <<>>, <<"">> } \cup { <<v>> : v \in values }

\* The configurations explored: every combination of absent, empty and set
\* credentials, with every SLACK_CHANNEL_IDS string up to the bound ("seq"),
\* or valid credentials with no, an empty or a two-entry list ("conc").
Envs(sc) ==
    IF sc = "seq"
    THEN [ SLACK_BOT_TOKEN   : OptionalStrings({"xoxb-1"}),
           SLACK_TEAM_ID     : OptionalStrings({"T1"}),
           SLACK_CHANNEL_IDS : { <<>> } \cup { <<s>> : s \in Strings(MaxIdsLen) } ]
    ELSE [ SLACK_BOT_TOKEN   : { <<"xoxb-1">> },
           SLACK_TEAM_ID     : { <<"T1">> },
           SLACK_CHANNEL_IDS : { <<>>, << <<>> >>, << <<"A", ",", "B">> >> } ]

\* Invocations that may be started in a scope.
Cap(sc) == IF sc = "seq" THEN 1 ELSE MaxInv

LimitArgs(sc) == IF sc = "seq" THEN { <<>>, <<0>>, <<201>> } ELSE { <<>> }
CursorArgs(sc) == IF sc = "seq" THEN { <<>>, <<"">>, <<"dXNlcg==">> } ELSE { <<"dXNlcg==">> }
HistoryLimitArgs(sc) == IF sc = "seq" THEN { <<>>, <<5>>, <<250>> } ELSE { <<5>> }
ChannelArgs(sc) == IF sc = "seq" THEN { "C1", "C2" } ELSE { "C1" }
TextArgs(sc) == IF sc = "seq" THEN { "hello", "" } ELSE { "hello" }
TsArgs(sc) == IF sc = "seq" THEN { "123.456", "789.012" } ELSE { "123.456" }
ReactionArgs(sc) == IF sc = "seq" THEN { "+1", "eyes" } ELSE { "+1" }
UserArgs(sc) == IF sc = "seq" THEN { "U1", "U2" } ELSE { "U1" }

\* The parameters a handler receives; those its tool does not declare stay at
\* their default here.
NoArgs ==
    [ channel_id |-> "", text |-> "", thread_ts |-> "", timestamp |-> "",
      reaction |-> "", user_id |-> "", limit |-> <<>>, cursor |-> <<>> ]

----------------------------------------------------------------------------
(* SlackMCP *)

\* the names init() registers with this.server.tool
ToolNames ==
    { "slack_list_channels", "slack_post_message", "slack_reply_to_thread",
      "slack_add_reaction", "slack_get_channel_history",
      "slack_get_thread_replies", "slack_get_users", "slack_get_user_profile" }

\* An invocation that has not started.
Idle ==
    [ pc |-> "idle", tool |-> "", args |-> NoArgs, mode |-> "", ids |-> <<>>,
      idx |-> 0, channels |-> <<>>, reqs |-> <<>>, resps |-> <<>>,
      ret |-> <<>>, out |-> <<>>, err |-> "" ]

InitVars(sc) ==
    /\ scope = sc
    /\ env \in Envs(sc)
    /\ agent = "new"
    /\ client = <<>>
    /\ tools = {}
    /\ inv = [i \in Invs |-> Idle]
    /\ inflight = {}

Init == InitVars("seq")

InitConc == InitVars("conc")

\* ConfigMissing as a test for undefined only.
ConfigMissing_UndefinedOnly(botToken, teamId) == botToken = <<>> \/ teamId = <<>>

\* if (!botToken || !teamId)
ConfigMissing(botToken, teamId) == ~Truthy(botToken) \/ ~Truthy(teamId)

\* SlackMCP constructor
Constructor ==
    /\ agent = "new"
    /\ LET botToken   == env.SLACK_BOT_TOKEN
           teamId     == env.SLACK_TEAM_ID
           channelIds == env.SLACK_CHANNEL_IDS
       IN  IF ConfigMissing(botToken, teamId)
           THEN /\ agent' = "failed"
                /\ client' = <<>>
           ELSE /\ agent' = "constructed"
                /\ client' = << SlackClient(botToken[1], teamId[1], channelIds) >>
    /\ UNCHANGED <<scope, env, tools, inv, inflight>>

\* SlackMCP.init(): runs on the constructed agent and registers the tools
InitTools ==
    /\ agent = "constructed"
    /\ agent' = "ready"
    /\ tools' = ToolNames
    /\ UNCHANGED <<scope, env, client, inv, inflight>>

\* The protocol server runs the handler of a registered tool; invocation
\* slots are taken in order.
CanInvoke(i, tool) ==
    /\ tool \in tools
    /\ i <= Cap(scope)
    /\ inv[i].pc = "idle"
    /\ \A j \in 1 .. i - 1 : inv[j].pc # "idle"

\* The fetch calls an invocation adds to those in flight.
Issued(i, before, new) ==
    { [ inv |-> i, n |-> before + k, req |-> new[k] ] : k \in 1 .. Len(new) }

\* A client method that makes its one fetch and suspends on it.
Call(i, tool, args, mode, req) ==
    /\ inv' = [inv EXCEPT ![i] =
                 [Idle EXCEPT !.pc = "fetch", !.tool = tool, !.args = args,
                              !.mode = mode, !.reqs = <<req>>]]
    /\ inflight' = inflight \cup Issued(i, 0, <<req>>)

\* getChannels, pinned listing: the loop head with r.idx the next entry.
\* Past the last entry the method returns its value, which resolves the
\* promise the handler awaits: the handler resumes in a later step.
\* Otherwise the entry's lookup is fetched and the invocation suspends.
LoopStep(i, r, base) ==
    IF LoopDone(r.ids, r.idx)
    THEN /\ inv' = [base EXCEPT ![i] =
                      [r EXCEPT !.pc = "returned",
                                !.ret = << PinnedResult(r.channels) >>]]
         /\ inflight' = inflight
    ELSE LET ks  == LookupsToIssue(r.ids, r.idx)
             new == [k \in 1 .. Len(ks) |->
                       ChannelInfoRequest(client[1].botHeaders, r.ids[ks[k]])]
         IN  /\ inv' = [base EXCEPT ![i] =
                          [r EXCEPT !.pc = "fetch", !.reqs = @ \o new]]
             /\ inflight' = inflight \cup Issued(i, Len(r.reqs), new)

\* slack_list_channels handler and SlackClient.getChannels up to its first await
slack_list_channels(i) ==
    /\ CanInvoke(i, "slack_list_channels")
    /\ \E limit \in LimitArgs(scope), cursor \in CursorArgs(scope) :
         LET c    == client[1]
             args == [NoArgs EXCEPT !.limit = limit, !.cursor = cursor]
         IN  IF ~UsesPinnedList(c.channelIds)
             THEN Call(i, "slack_list_channels", args, "open",
                       ListChannelsRequest(c, limit, cursor))
             ELSE LoopStep(i, [Idle EXCEPT !.tool = "slack_list_channels",
                                           !.args = args, !.mode = "pinned",
                                           !.ids = PredefinedChannelIdsArray(c.channelIds[1]),
                                           !.idx = 1],
                           inv)
    /\ UNCHANGED <<scope, env, agent, client, tools>>

\* slack_post_message handler and SlackClient.postMessage up to its await
slack_post_message(i) ==
    /\ CanInvoke(i, "slack_post_message")
    /\ \E channel_id \in ChannelArgs(scope), text \in TextArgs(scope) :
         Call(i, "slack_post_message",
              [NoArgs EXCEPT !.channel_id = channel_id, !.text = text], "single",
              PostMessageRequest(client[1].botHeaders, channel_id, text))
    /\ UNCHANGED <<scope, env, agent, client, tools>>

\* slack_reply_to_thread handler and SlackClient.postReply up to its await
slack_reply_to_thread(i) ==
    /\ CanInvoke(i, "slack_reply_to_thread")
    /\ \E channel_id \in ChannelArgs(scope), thread_ts \in TsArgs(scope),
          text \in TextArgs(scope) :
         Call(i, "slack_reply_to_thread",
              [NoArgs EXCEPT !.channel_id = channel_id, !.thread_ts = thread_ts,
                             !.text = text], "single",
              PostReplyRequest(client[1].botHeaders, channel_id, thread_ts, text))
    /\ UNCHANGED <<scope, env, agent, client, tools>>

\* slack_add_reaction handler and SlackClient.addReaction up to its await
slack_add_reaction(i) ==
    /\ CanInvoke(i, "slack_add_reaction")
    /\ \E channel_id \in ChannelArgs(scope), timestamp \in TsArgs(scope),
          reaction \in ReactionArgs(scope) :
         Call(i, "slack_add_reaction",
              [NoArgs EXCEPT !.channel_id = channel_id, !.timestamp = timestamp,
                             !.reaction = reaction], "single",
              AddReactionRequest(client[1].botHeaders, channel_id, timestamp, reaction))
    /\ UNCHANGED <<scope, env, agent, client, tools>>

\* slack_get_channel_history handler and SlackClient.getChannelHistory
slack_get_channel_history(i) ==
    /\ CanInvoke(i, "slack_get_channel_history")
    /\ \E channel_id \in ChannelArgs(scope), limit \in HistoryLimitArgs(scope) :
         Call(i, "slack_get_channel_history",
              [NoArgs EXCEPT !.channel_id = channel_id, !.limit = limit], "single",
              ChannelHistoryRequest(client[1].botHeaders, channel_id, limit))
    /\ UNCHANGED <<scope, env, agent, client, tools>>

\* slack_get_thread_replies handler and SlackClient.getThreadReplies
slack_get_thread_replies(i) ==
    /\ CanInvoke(i, "slack_get_thread_replies")
    /\ \E channel_id \in ChannelArgs(scope), thread_ts \in TsArgs(scope) :
         Call(i, "slack_get_thread_replies",
              [NoArgs EXCEPT !.channel_id = channel_id, !.thread_ts = thread_ts],
              "single",
              ThreadRepliesRequest(client[1].botHeaders, channel_id, thread_ts))
    /\ UNCHANGED <<scope, env, agent, client, tools>>

\* slack_get_users handler and SlackClient.getUsers
slack_get_users(i) ==
    /\ CanInvoke(i, "slack_get_users")
    /\ \E limit \in LimitArgs(scope), cursor \in CursorArgs(scope) :
         Call(i, "slack_get_users",
              [NoArgs EXCEPT !.limit = limit, !.cursor = cursor], "single",
              UsersRequest(client[1], limit, cursor))
    /\ UNCHANGED <<scope, env, agent, client, tools>>

\* slack_get_user_profile handler and SlackClient.getUserProfile
slack_get_user_profile(i) ==
    /\ CanInvoke(i, "slack_get_user_profile")
    /\ \E user_id \in UserArgs(scope) :
         Call(i, "slack_get_user_profile",
              [NoArgs EXCEPT !.user_id = user_id], "single",
              UserProfileRequest(client[1].botHeaders, user_id))
    /\ UNCHANGED <<scope, env, agent, client, tools>>

----------------------------------------------------------------------------
(* Resumptions *)

Last(s) == s[Len(s)]

\* "await fetch(...)" resumes with the provider's response.  Neither the
\* client nor the handler reads response.ok or response.status.
FetchResolve(i) ==
    /\ inv[i].pc = "fetch"
    /\ \E f \in inflight :
         /\ f.inv = i
         /\ \E resp \in ProviderResponses(scope, f.req) :
              /\ inv' = [inv EXCEPT ![i].pc = "json", ![i].resps = Append(@, resp)]
              /\ inflight' = inflight \ {f}
    /\ UNCHANGED <<scope, env, agent, client, tools>>

\* Rejected of a method that catches the failure and returns what the pinned
\* listing has collected so far.
Rejected_PartialResult(r, err) ==
    [r EXCEPT !.pc = "done", !.out = << HandlerOutput(PinnedResult(r.channels)) >>]

\* The handler's "await this.slackClient.<method>(...)" rejects: the handler
\* catches nothing, so its own promise rejects and the invocation has failed.
Rejected(r, err) == [r EXCEPT !.pc = "failed", !.err = err]

\* Thrown of a client method that catches what is thrown in it and returns
\* the error as a body with ok:false, which the handler outputs.
Thrown_Swallowed(r, err) ==
    [r EXCEPT !.pc = "done",
              !.out = << HandlerOutput(Obj(<<FALSE>>, <<err>>, <<>>, <<>>, <<>>)) >>]

\* An await inside a client method rejects, or a statement of it throws: the
\* method catches nothing, so its promise rejects.  The handler awaiting it
\* is still pending.
Thrown(r, err) == [r EXCEPT !.pc = "thrown", !.err = err]

\* "await fetch(...)" rejects: the transport failed and the client method
\* throws.
FetchReject(i) ==
    /\ inv[i].pc = "fetch"
    /\ \E f \in inflight :
         /\ f.inv = i
         /\ inv' = [inv EXCEPT ![i] = Thrown(@, "fetch")]
         /\ inflight' = inflight \ {f}
    /\ UNCHANGED <<scope, env, agent, client, tools>>

\* response.json() rejects: the body is no JSON document.  In a pinned
\* listing it is getChannels that awaits the body, and it throws; elsewhere
\* the method has returned the promise of the body and it is the handler
\* that is resumed with the rejection.
JsonReject(i) ==
    /\ inv[i].pc = "json"
    /\ ~Last(inv[i].resps).body.json
    /\ inv' = [inv EXCEPT ![i] = IF @.mode = "pinned"
                                 THEN Thrown(@, "json")
                                 ELSE Rejected(@, "json")]
    /\ UNCHANGED <<scope, env, agent, client, tools, inflight>>

\* The handler is resumed with the rejection of the client method it awaits.
HandlerReject(i) ==
    /\ inv[i].pc = "thrown"
    /\ inv' = [inv EXCEPT ![i] = Rejected(@, @.err)]
    /\ UNCHANGED <<scope, env, agent, client, tools, inflight>>

\* "return response.json()" resolves, the handler's await resumes and the
\* handler returns the wrapped value.
JsonResolve(i) ==
    /\ inv[i].pc = "json"
    /\ inv[i].mode # "pinned"
    /\ Last(inv[i].resps).body.json
    /\ inv' = [inv EXCEPT ![i].pc = "done",
                          ![i].out = << HandlerOutput(Last(inv[i].resps).body.value) >>]
    /\ UNCHANGED <<scope, env, agent, client, tools, inflight>>

\* slack_list_channels handler, pinned listing: "await
\* this.slackClient.getChannels(limit, cursor)" resumes with the value the
\* method returned, and the handler returns it wrapped.
HandlerResume(i) ==
    /\ inv[i].pc = "returned"
    /\ inv' = [inv EXCEPT ![i].pc = "done",
                          ![i].out = << HandlerOutput(inv[i].ret[1]) >>]
    /\ UNCHANGED <<scope, env, agent, client, tools, inflight>>

\* getChannels, pinned listing: "await response.json()" resumes; the channel
\* is kept or skipped and the loop goes on or the method returns.  Reading
\* data.ok of null throws.
LookupDecoded(i) ==
    /\ inv[i].pc = "json"
    /\ inv[i].mode = "pinned"
    /\ Last(inv[i].resps).body.json
    /\ LET data == Last(inv[i].resps).body.value
       IN  IF data.type = "null"
           THEN /\ inv' = [inv EXCEPT ![i] = Thrown(@, "type")]
                /\ inflight' = inflight
           ELSE LET chs  == PushChannel([j \in Invs |-> inv[j].channels], i, data)
                    base == [j \in Invs |-> [inv[j] EXCEPT !.channels = chs[j]]]
                IN  LoopStep(i, [base[i] EXCEPT !.idx = @ + 1], base)
    /\ UNCHANGED <<scope, env, agent, client, tools>>

Next ==
    \/ Constructor
    \/ InitTools
    \/ \E i \in Invs : slack_list_channels(i)
    \/ \E i \in Invs : slack_post_message(i)
    \/ \E i \in Invs : slack_reply_to_thread(i)
    \/ \E i \in Invs : slack_add_reaction(i)
    \/ \E i \in Invs : slack_get_channel_history(i)
    \/ \E i \in Invs : slack_get_thread_replies(i)
    \/ \E i \in Invs : slack_get_users(i)
    \/ \E i \in Invs : slack_get_user_profile(i)
    \/ \E i \in Invs : FetchResolve(i)
    \/ \E i \in Invs : FetchReject(i)
    \/ \E i \in Invs : JsonReject(i)
    \/ \E i \in Invs : JsonResolve(i)
    \/ \E i \in Invs : LookupDecoded(i)
    \/ \E i \in Invs : HandlerResume(i)
    \/ \E i \in Invs : HandlerReject(i)

\* One invocation at a time, over the wide inputs.
Spec == Init /\ [][Next]_vars

\* Overlapping invocations on one client.
SpecConc == InitConc /\ [][Next]_vars

----------------------------------------------------------------------------
(* Vocabulary of the properties *)

Started(i) == inv[i].pc # "idle"
\* The handler of invocation i has returned its output.
Returned(i) == inv[i].pc = "done"
\* The handler of invocation i has rejected.
Failed(i) == inv[i].pc = "failed"
\* The client method of invocation i has thrown, or its handler has rejected.
Failing(i) == inv[i].pc \in { "thrown", "failed" }
Finished(i) == Returned(i) \/ Failed(i)
IsListChannels(i) == inv[i].tool = "slack_list_channels"

\* A value is missing from the configuration: absent or empty.
Missing(opt) == opt = <<>> \/ opt = <<"">>

\* The configuration carries a pinned channel-id list: a non-empty string.
PinnedConfigured == env.SLACK_CHANNEL_IDS \notin { <<>>, << <<>> >> }

\* The entries of the configured pinned list, in order.
PinnedList == PredefinedChannelIdsArray(env.SLACK_CHANNEL_IDS[1])

\* The headers every request carries.
Credentials ==
    [ Authorization |-> "Bearer " \o env.SLACK_BOT_TOKEN[1],
      ContentType   |-> "application/json" ]

\* The lookup of one channel id.
Lookup(id) ==
    [ endpoint |-> "https://slack.com/api/conversations.info", method |-> "GET",
      headers |-> Credentials, query |-> << <<"channel", id>> >>, body |-> <<>> ]

\* The value the tool returned: what its one text content item encodes.
ReturnedValue(i) == inv[i].out[1].content[1].text.value

\* The output is one text item holding the JSON of v.
Outputs(i, v) ==
    inv[i].out = << [ content |-> << [ type |-> "text",
                                       text |-> [ json |-> TRUE, value |-> v ] ] >> ] >>

\* A response whose decoded body reports success.
Succeeded(resp) ==
    /\ resp.body.json
    /\ resp.body.value.type = "object"
    /\ resp.body.value.ok = <<TRUE>>

\* A response that carries an archived channel.
Archived(resp) ==
    /\ resp.body.value.channel # <<>>
    /\ resp.body.value.channel[1].is_archived = <<TRUE>>

\* A lookup response whose channel belongs in the listing.
Listed(resp) ==
    Succeeded(resp) /\ resp.body.value.channel # <<>> /\ ~Archived(resp)

\* A provider-level failure: a non-2xx response or a body with ok:false.
ProviderFailure(resp) ==
    \/ resp.status < 200
    \/ resp.status > 299
    \/ resp.body.json /\ resp.body.value.ok = <<FALSE>>

RECURSIVE ChannelsOf(_)
\* The channels of the listed responses, in the order of the responses.
ChannelsOf(resps) ==
    IF resps = <<>> THEN <<>>
    ELSE (IF Listed(Head(resps)) THEN <<Head(resps).body.value.channel[1]>> ELSE <<>>)
         \o ChannelsOf(Tail(resps))

RECURSIVE ListedIds(_, _)
\* The entries of ids whose response is listed, in the order of ids.
ListedIds(ids, resps) ==
    IF ids = <<>> \/ resps = <<>> THEN <<>>
    ELSE (IF Listed(Head(resps)) THEN <<Head(ids)>> ELSE <<>>)
         \o ListedIds(Tail(ids), Tail(resps))

\* The fetches of invocation i that have not settled.
Outstanding(i) == { f \in inflight : f.inv = i }

----------------------------------------------------------------------------
(* C1 *)

\* C1: with a pinned list configured, a list_channels call looks up the
\* entries of the list whatever limit and cursor are, and returns ok:true,
\* an empty next_cursor, and exactly the channels of the lookups that
\* succeeded with a channel that is not archived, in the order of the list.
C1_PinnedListing ==
    \A i \in Invs :
        (PinnedConfigured /\ IsListChannels(i) /\ Started(i)) =>
            /\ Len(inv[i].reqs) <= Len(PinnedList)
            /\ \A k \in 1 .. Len(inv[i].reqs) : inv[i].reqs[k] = Lookup(PinnedList[k])
            /\ Returned(i) =>
                 /\ Len(inv[i].resps) = Len(PinnedList)
                 /\ Outputs(i, [ type |-> "object", ok |-> <<TRUE>>, error |-> <<>>,
                                 channel |-> <<>>,
                                 channels |-> << ChannelsOf(inv[i].resps) >>,
                                 response_metadata |-> << [ next_cursor |-> "" ] >> ])
                 /\ [k \in 1 .. Len(ReturnedValue(i).channels[1]) |->
                        ReturnedValue(i).channels[1][k].id]
                      = ListedIds(PinnedList, inv[i].resps)

\* The scenario of the specification with a limit and a cursor passed: list
\* "A,B", A found and active, B found and archived, only A returned.
C1_Witness ==
    /\ env.SLACK_CHANNEL_IDS = << <<"A", ",", "B">> >>
    /\ IsListChannels(1) /\ Returned(1)
    /\ inv[1].args.limit = <<201>> /\ inv[1].args.cursor = <<"dXNlcg==">>
    /\ inv[1].resps = << Found("A", <<FALSE>>), Found("B", <<TRUE>>) >>
    /\ ReturnedValue(1).channels = << << Chan("A", <<FALSE>>) >> >>

----------------------------------------------------------------------------
(* C2 *)

\* The limit parameter of an open listing: the limit, 100 by default, capped
\* at 200, in decimal.
ClampedLimit(limit) ==
    LET lim == IF limit = <<>> THEN 100 ELSE limit[1]
    IN  NumToString(IF lim > 200 THEN 200 ELSE lim)

\* The parameters every open listing request carries before the cursor.
OpenListingParams(i) ==
    << <<"types", "public_channel">>, <<"exclude_archived", "true">>,
       <<"limit", ClampedLimit(inv[i].args.limit)>>,
       <<"team_id", env.SLACK_TEAM_ID[1]>> >>

\* With no pinned list, list_channels issues one GET of conversations.list
\* with the clamped limit, and returns the decoded payload as it came.
OpenListingBasics(i) ==
    /\ Len(inv[i].reqs) = 1
    /\ inv[i].reqs[1].endpoint = "https://slack.com/api/conversations.list"
    /\ inv[i].reqs[1].method = "GET"
    /\ inv[i].reqs[1].headers = Credentials
    /\ inv[i].reqs[1].body = <<>>
    /\ SubSeq(inv[i].reqs[1].query, 1, 4) = OpenListingParams(i)
    /\ Returned(i) => Outputs(i, inv[i].resps[1].body.value)

\* C2 as claimed: with no pinned list, list_channels issues one listing
\* request carrying the clamped limit and, for every cursor value the caller
\* passes, that cursor unchanged; the payload is returned unmodified.
C2_AsClaimed ==
    \A i \in Invs :
        (~PinnedConfigured /\ IsListChannels(i) /\ Started(i)) =>
            /\ OpenListingBasics(i)
            /\ inv[i].args.cursor # <<>> =>
                 inv[i].reqs[1].query
                   = Append(OpenListingParams(i), <<"cursor", inv[i].args.cursor[1]>>)

\* C2 amended: the request carries the cursor unchanged when the cursor is a
\* non-empty string, and no cursor parameter when it is absent or empty.
C2_OpenListing ==
    \A i \in Invs :
        (~PinnedConfigured /\ IsListChannels(i) /\ Started(i)) =>
            /\ OpenListingBasics(i)
            /\ inv[i].reqs[1].query
                 = IF inv[i].args.cursor \in { <<>>, <<"">> }
                   THEN OpenListingParams(i)
                   ELSE Append(OpenListingParams(i), <<"cursor", inv[i].args.cursor[1]>>)

\* An open listing asked for 201 channels with a cursor: limit=200 is sent,
\* the cursor goes along, and the provider's page comes back as the output.
C2_Witness ==
    /\ ~PinnedConfigured
    /\ IsListChannels(1) /\ Returned(1)
    /\ inv[1].args.limit = <<201>> /\ inv[1].args.cursor = <<"dXNlcg==">>
    /\ inv[1].reqs[1].query[3] = <<"limit", "200">>
    /\ inv[1].reqs[1].query[5] = <<"cursor", "dXNlcg==">>
    /\ inv[1].resps = << Page >>
    /\ ReturnedValue(1) = Page.body.value

----------------------------------------------------------------------------
(* C3 *)

PinnedListing(i) == PinnedConfigured /\ IsListChannels(i)

\* A request of invocation i was rejected at transport level: it has no
\* response and is no longer in flight.
TransportRejected(i) ==
    Len(inv[i].reqs) > Len(inv[i].resps) /\ Outstanding(i) = {}

\* The k-th response of invocation i has a body that is no JSON document.
Undecodable(i, k) == ~inv[i].resps[k].body.json

\* The k-th response of pinned listing i has a body that decodes to null.
NullLookup(i, k) ==
    /\ PinnedListing(i)
    /\ inv[i].resps[k].body.json
    /\ inv[i].resps[k].body.value.type = "null"

----------------------------------------------------------------------------
(* C4 *)

\* C4 as claimed: every invocation that has finished issued exactly one
\* outbound HTTP call.
C4_AsClaimed ==
    \A i \in Invs : Finished(i) => Len(inv[i].reqs) = 1

\* C4 amended: an invocation of any tool but the pinned listing issues
\* exactly one HTTP call; a pinned listing issues one call per entry of the
\* list, as many as the list has entries when it returns and fewer only when
\* it fails.  An invocation is pending only on its one outstanding call
\* (awaiting the response, or the body of the response just received) or,
\* with no call outstanding, until its handler is resumed with what the
\* client method ended in: the value getChannels returned after the last
\* lookup of a pinned listing, or the error the method threw.
C4_CallsPerInvocation ==
    \A i \in Invs :
        Started(i) =>
            /\ ~(PinnedConfigured /\ IsListChannels(i)) => Len(inv[i].reqs) = 1
            /\ (PinnedConfigured /\ IsListChannels(i)) =>
                 /\ Len(inv[i].reqs) \in 1 .. Len(PinnedList)
                 /\ Returned(i) => Len(inv[i].reqs) = Len(PinnedList)
            /\ inv[i].pc = "fetch" =>
                 /\ Cardinality(Outstanding(i)) = 1
                 /\ Len(inv[i].resps) = Len(inv[i].reqs) - 1
            /\ inv[i].pc = "json" =>
                 /\ Outstanding(i) = {}
                 /\ Len(inv[i].resps) = Len(inv[i].reqs)
            /\ inv[i].pc = "returned" =>
                 /\ PinnedConfigured /\ IsListChannels(i)
                 /\ Outstanding(i) = {}
                 /\ Len(inv[i].resps) = Len(PinnedList)
                 /\ Len(inv[i].reqs) = Len(PinnedList)
            /\ inv[i].pc = "thrown" =>
                 /\ Outstanding(i) = {}
                 /\ inv[i].ret = <<>> /\ inv[i].out = <<>>
                 /\ \/ inv[i].err = "fetch"
                    \/ /\ inv[i].err \in { "json", "type" }
                       /\ PinnedConfigured /\ IsListChannels(i)
            /\ Finished(i) => Outstanding(i) = {}
            /\ inv[i].pc \in { "fetch", "json", "returned", "thrown", "done", "failed" }

\* A pinned listing over three entries that returned after three calls.
C4_Witness ==
    /\ PinnedConfigured
    /\ IsListChannels(1) /\ Returned(1)
    /\ Len(PinnedList) = 3
    /\ Len(inv[1].reqs) = 3

----------------------------------------------------------------------------
(* C5 *)

\* The endpoint every request of invocation i went to is e.
AllTo(i, e) ==
    /\ inv[i].reqs # <<>>
    /\ \A k \in 1 .. Len(inv[i].reqs) : inv[i].reqs[k].endpoint = e

\* Every list_channels call on the client listed in the mode the construction
\* fixed, and the client holds what it was constructed with.
ModeFixed ==
    /\ \A i \in Invs :
         (IsListChannels(i) /\ Started(i)) =>
             IF PinnedConfigured
             THEN AllTo(i, "https://slack.com/api/conversations.info")
             ELSE AllTo(i, "https://slack.com/api/conversations.list")
    /\ \A i, j \in Invs :
         (IsListChannels(i) /\ Started(i) /\ IsListChannels(j) /\ Started(j)) =>
             inv[i].reqs[1].endpoint = inv[j].reqs[1].endpoint
    /\ client # <<>> =>
         client = << [ botHeaders |-> Credentials,
                       teamId     |-> env.SLACK_TEAM_ID[1],
                       channelIds |-> env.SLACK_CHANNEL_IDS ] >>

\* C5: every list_channels call on a client uses one mode, the pinned one
\* exactly when a (non-empty) pinned list was configured, the same for every
\* call; and no operation changes the stored token, workspace id or list.
C5_ModeFixedAtConstruction ==
    /\ []ModeFixed
    /\ [][client # <<>> => client' = client]_vars

\* Two pinned listings on one client, both returned.
C5_Witness ==
    /\ PinnedConfigured
    /\ IsListChannels(1) /\ Returned(1)
    /\ IsListChannels(2) /\ Returned(2)
    /\ AllTo(2, "https://slack.com/api/conversations.info")

----------------------------------------------------------------------------
(* C6 *)

\* The responses invocation i has decoded.
Decoded(i) ==
    IF inv[i].pc = "json"
    THEN SubSeq(inv[i].resps, 1, Len(inv[i].resps) - 1)
    ELSE inv[i].resps

\* C6: whatever the interleaving, an invocation's collected channels and its
\* result are those of the responses to its own requests, its requests are
\* those of its own parameters and the credentials, and every call in flight
\* is the latest request of the invocation that awaits it.
C6_Independent ==
    /\ \A i \in Invs :
         Started(i) =>
             IF PinnedConfigured /\ IsListChannels(i)
             THEN /\ inv[i].channels = ChannelsOf(Decoded(i))
                  /\ \A k \in 1 .. Len(inv[i].reqs) :
                         inv[i].reqs[k] = Lookup(PinnedList[k])
                  /\ inv[i].ret # <<>> =>
                         inv[i].ret[1].channels = << ChannelsOf(inv[i].resps) >>
                  /\ Returned(i) =>
                         ReturnedValue(i).channels = << ChannelsOf(inv[i].resps) >>
             ELSE /\ inv[i].channels = <<>>
                  /\ inv[i].ret = <<>>
                  /\ Len(inv[i].reqs) = 1
                  /\ inv[i].reqs[1].headers = Credentials
                  /\ Returned(i) => Outputs(i, inv[i].resps[1].body.value)
    /\ \A f \in inflight :
         /\ inv[f.inv].pc = "fetch"
         /\ f.n = Len(inv[f.inv].reqs)
         /\ f.req = inv[f.inv].reqs[f.n]

\* Two overlapping pinned listings: getChannels of the first has returned
\* channels A and B and its handler has not resumed yet, while the second,
\* started later, has returned an empty list because its own lookups found A
\* and B archived.
C6_Witness ==
    /\ PinnedConfigured
    /\ IsListChannels(1) /\ inv[1].pc = "returned"
    /\ inv[1].channels = << Chan("A", <<FALSE>>), Chan("B", <<FALSE>>) >>
    /\ inv[1].out = <<>>
    /\ IsListChannels(2) /\ Returned(2)
    /\ inv[2].resps = << Found("A", <<TRUE>>), Found("B", <<TRUE>>) >>
    /\ ReturnedValue(2).channels = << <<>> >>

----------------------------------------------------------------------------
(* C7 *)

\* C7: once the constructor has run, it has failed exactly when the bot
\* token or the workspace id is absent or empty, whatever the pinned list;
\* after a failure there is no client, no tool is registered and no
\* invocation ever starts; otherwise the client exists.
C7_ConfigurationError ==
    agent # "new" =>
        /\ agent = "failed"
             <=> (Missing(env.SLACK_BOT_TOKEN) \/ Missing(env.SLACK_TEAM_ID))
        /\ agent = "failed" =>
             /\ client = <<>>
             /\ tools = {}
             /\ inflight = {}
             /\ \A i \in Invs : ~Started(i)
        /\ agent # "failed" => client # <<>>

\* The constructor has thrown on an empty token with a workspace id and a
\* pinned list present.
C7_Witness ==
    /\ agent = "failed"
    /\ env.SLACK_BOT_TOKEN = <<"">>
    /\ env.SLACK_TEAM_ID = <<"T1">>
    /\ PinnedConfigured

----------------------------------------------------------------------------
(* C8 *)

\* The fields of a body other than the one called name.
Without(fields, name) == SelectSeq(fields, LAMBDA f : f[1] # name)

\* C8: the request of post_reply(channel_id, thread_ts, text) is that of
\* post_message(channel_id, text) -- a POST of channel and text to
\* chat.postMessage with the same headers -- but for the one added field
\* thread_ts, which holds the parent timestamp.
C8_ReplyIsMessagePlusThread ==
    \A i \in Invs :
        /\ (Started(i) /\ inv[i].tool = "slack_post_message") =>
             inv[i].reqs =
               << [ endpoint |-> "https://slack.com/api/chat.postMessage",
                    method |-> "POST", headers |-> Credentials, query |-> <<>>,
                    body |-> << <<"channel", inv[i].args.channel_id>>,
                                <<"text", inv[i].args.text>> >> ] >>
        /\ (Started(i) /\ inv[i].tool = "slack_reply_to_thread") =>
             /\ Len(inv[i].reqs) = 1
             /\ [ inv[i].reqs[1] EXCEPT !.body = Without(@, "thread_ts") ]
                  = PostMessageRequest(Credentials, inv[i].args.channel_id,
                                       inv[i].args.text)
             /\ Len(inv[i].reqs[1].body) = 3
             /\ <<"thread_ts", inv[i].args.thread_ts>>
                  \in { inv[i].reqs[1].body[k] : k \in 1 .. 3 }

\* A reply with an empty text to the thread 789.012 of channel C2.
C8_Witness ==
    /\ inv[1].tool = "slack_reply_to_thread" /\ Started(1)
    /\ inv[1].args.channel_id = "C2"
    /\ inv[1].args.thread_ts = "789.012"
    /\ inv[1].args.text = ""
    /\ inv[1].reqs[1].body[2] = <<"thread_ts", "789.012">>

----------------------------------------------------------------------------
(* C9 *)

\* C9: a pinned listing issues one lookup per entry of the list, in the
\* order of the list, the next one only once the response to the previous
\* one has been received and decoded: it has at most one lookup outstanding,
\* and has looked up every entry when it returns.
C9_SequentialLookups ==
    \A i \in Invs :
        (PinnedConfigured /\ IsListChannels(i) /\ Started(i)) =>
            /\ Len(inv[i].reqs) <= Len(PinnedList)
            /\ \A k \in 1 .. Len(inv[i].reqs) : inv[i].reqs[k] = Lookup(PinnedList[k])
            /\ Cardinality(Outstanding(i)) <= 1
            /\ Len(inv[i].reqs) <= Len(inv[i].resps) + 1
            /\ Len(inv[i].reqs) = Len(inv[i].resps) + Cardinality(Outstanding(i))
                 \/ (Failing(i) /\ inv[i].err = "fetch")
            /\ inv[i].pc = "json" => Len(inv[i].reqs) = Len(inv[i].resps)
            /\ Returned(i) => Len(inv[i].reqs) = Len(PinnedList)

\* A listing over three entries awaiting its second lookup, the first
\* answered and the third not yet issued.
C9_Witness ==
    /\ PinnedConfigured /\ Len(PinnedList) = 3
    /\ IsListChannels(1) /\ inv[1].pc = "fetch"
    /\ Len(inv[1].reqs) = 2 /\ Len(inv[1].resps) = 1
    /\ Cardinality(Outstanding(1)) = 1

----------------------------------------------------------------------------
(* C10 *)

\* C10: a pinned listing whose lookup is rejected at transport level fails
\* as a whole: it returns nothing, not even the channels collected so far,
\* the rejected lookup is its last request (no retry, no lookup of a later
\* entry) and nothing of it stays in flight.  A listing that returns has had
\* a decoded answer to the lookup of every entry: only lookups the provider
\* answered without success are left out silently.
C10_TransportFailureAborts ==
    \A i \in Invs :
        (PinnedConfigured /\ IsListChannels(i)) =>
            /\ (Started(i) /\ Len(inv[i].reqs) > Len(inv[i].resps)
                  /\ Outstanding(i) = {}) =>
                 /\ Failing(i) /\ inv[i].err = "fetch"
                 /\ inv[i].out = <<>>
                 /\ Len(inv[i].reqs) = Len(inv[i].resps) + 1
            /\ (Failing(i) /\ inv[i].err = "fetch") =>
                 /\ inv[i].out = <<>>
                 /\ inv[i].ret = <<>>
                 /\ Outstanding(i) = {}
                 /\ Len(inv[i].reqs) = Len(inv[i].resps) + 1
            /\ inv[i].ret # <<>> => Len(inv[i].resps) = Len(PinnedList)
            /\ Returned(i) =>
                 /\ Len(inv[i].resps) = Len(PinnedList)
                 /\ \A k \in 1 .. Len(inv[i].resps) : inv[i].resps[k].body.json
                 /\ Len(ReturnedValue(i).channels[1])
                      = Cardinality({ k \in 1 .. Len(inv[i].resps) :
                                        Listed(inv[i].resps[k]) })

\* A listing over three entries that failed on its second lookup after
\* keeping the channel of the first; the third entry was never looked up.
C10_Witness ==
    /\ PinnedConfigured /\ Len(PinnedList) = 3
    /\ IsListChannels(1) /\ Failed(1) /\ inv[1].err = "fetch"
    /\ inv[1].channels # <<>>
    /\ Len(inv[1].reqs) = 2
    /\ inv[1].out = <<>>

====
